---- MODULE Spec2Model ----
(***************************************************************************)
(* Model of the CACFP meal-count workbook parsers.                         *)
(*                                                                         *)
(*   - the fuzzy "Meal Count Debugger" parser: norm, is_day_token,          *)
(*     meal_label_from_token, nonempty_mark, parse_sheet, build_all         *)
(*   - the strict "Meal Count Monitoring" parser: parse_sheet, build_report *)
(*                                                                         *)
(* A worksheet (pandas DataFrame read with header=None) is a sequence of   *)
(* rows, each a sequence of cells.  Row and column indices in every        *)
(* result are the zero-based indices of the code.  A text is a sequence of *)
(* one-character strings, so that strip/lower/startswith are computed.     *)
(***************************************************************************)
EXTENDS Integers, Sequences, FiniteSets, TLC

VARIABLES xls, assume_attendance_if_any_meal, driver, s, parsed,
          all_records, debug, out, pc

vars == <<xls, assume_attendance_if_any_meal, driver, s, parsed,
          all_records, debug, out, pc>>

(***************************************************************************)
(* Cells and texts                                                         *)
(***************************************************************************)
\* None of the code, for row indices
None == -1

NaN == [k |-> "nan", t |-> <<>>, n |-> 0]
Str(t) == [k |-> "str", t |-> t, n |-> 0]
Num(n) == [k |-> "num", t |-> <<>>, n |-> n]
Bool(b) == [k |-> "bool", t |-> <<>>, n |-> IF b THEN 1 ELSE 0]

\* a datetime cell; n = 100 * month + day of the month, in one year
Dt(n) == [k |-> "date", t |-> <<>>, n |-> n]

isinstance_str(x) == x.k = "str"

\* pd.isna on a scalar cell
isna(x) == x.k = "nan"

IsSpace(ch) == ch \in {" ", "\t", "\n"}

Upper == <<"A","B","C","D","E","F","G","H","I","J","K","L","M",
           "N","O","P","Q","R","S","T","U","V","W","X","Y","Z">>
Lower == <<"a","b","c","d","e","f","g","h","i","j","k","l","m",
           "n","o","p","q","r","s","t","u","v","w","x","y","z">>
Digits == <<"0","1","2","3","4","5","6","7","8","9">>

LowerSet == {Lower[i] : i \in 1..Len(Lower)}
UpperSet == {Upper[i] : i \in 1..Len(Upper)}
DigitSet == {Digits[i] : i \in 1..Len(Digits)}

\* str.lower on one character
lower_ch(ch) ==
    IF ch \in UpperSet
    THEN Lower[CHOOSE i \in 1..Len(Upper) : Upper[i] = ch]
    ELSE ch

lower(t) == [i \in 1..Len(t) |-> lower_ch(t[i])]

RECURSIVE lstrip(_)
lstrip(t) ==
    IF t = <<>> THEN <<>>
    ELSE IF IsSpace(Head(t)) THEN lstrip(Tail(t)) ELSE t

RECURSIVE rstrip(_)
rstrip(t) ==
    IF t = <<>> THEN <<>>
    ELSE IF IsSpace(t[Len(t)]) THEN rstrip(SubSeq(t, 1, Len(t) - 1)) ELSE t

\* str.strip()
strip(t) == rstrip(lstrip(t))

\* str.rstrip('.')
RECURSIVE rstrip_dot(_)
rstrip_dot(t) ==
    IF t = <<>> THEN <<>>
    ELSE IF t[Len(t)] = "." THEN rstrip_dot(SubSeq(t, 1, Len(t) - 1)) ELSE t

startswith(t, p) == Len(p) <= Len(t) /\ SubSeq(t, 1, Len(p)) = p

endswith(t, p) ==
    Len(p) <= Len(t) /\ SubSeq(t, Len(t) - Len(p) + 1, Len(t)) = p

\* the Python test  sub in t
contains(t, sub) ==
    \E i \in 1..(Len(t) - Len(sub) + 1) : SubSeq(t, i, i + Len(sub) - 1) = sub

\* t.split()[0] of a text with a non-blank character: its first word
RECURSIVE first_word(_)
first_word(t) ==
    IF t = <<>> \/ IsSpace(Head(t)) THEN <<>>
    ELSE <<Head(t)>> \o first_word(Tail(t))

\* str(d) of a date: three digits, month then day
date_str(n) ==
    <<Digits[(n \div 100) + 1], Digits[((n \div 10) % 10) + 1],
      Digits[(n % 10) + 1]>>

\* str(x) of a cell
to_str(x) ==
    CASE x.k = "str" -> x.t
      [] x.k = "date" -> date_str(x.n)
      [] x.k = "nan" -> <<"n","a","n">>
      [] x.k = "bool" -> IF x.n = 1 THEN <<"T","r","u","e">>
                         ELSE <<"F","a","l","s","e">>
      [] OTHER -> <<Digits[x.n + 1]>>

(***************************************************************************)
(* Token classifier and mark detector of the fuzzy parser                  *)
(***************************************************************************)
norm_keep(ch) == ch \in LowerSet \/ ch \in DigitSet \/ ch = " "

norm(x) == SelectSeq(lower(strip(to_str(x))), norm_keep)

DayPrefixes ==
    << <<"m","o","n">>, <<"t","u","e">>, <<"w","e","d">>, <<"t","h","u">>,
       <<"f","r","i">>, <<"m","o","n","d","a","y">>,
       <<"t","u","e","s","d","a","y">>,
       <<"w","e","d","n","e","s","d","a","y">>,
       <<"t","h","u","r","s","d","a","y">>, <<"f","r","i","d","a","y">> >>

is_day_token(x) ==
    IF ~isinstance_str(x) THEN FALSE
    ELSE \E i \in 1..Len(DayPrefixes) : startswith(norm(x), DayPrefixes[i])

BreakfastSet ==
    { <<"b">>, <<"b","r">>, <<"b","f">>,
      <<"b","r","e","a","k","f","a","s","t">>,
      <<"a","m"," ","s","n","a","c","k">>, <<"a","m","s","n","a","c","k">> }
LunchSet == { <<"l">>, <<"l","n">>, <<"l","u","n","c","h">> }
PMSet ==
    { <<"p">>, <<"p","m">>, <<"p","m","s","n","a","c","k">>,
      <<"s","n","a","c","k"," ","p","m">>, <<"s","n","a","c","k","p","m">>,
      <<"p","m"," ","s","n","a","c","k">>, <<"p","m","m","e","a","l">>,
      <<"s","n","a","c","k">> }

\* the classifier trying the PM-snack rule first
meal_label_pm_first(x) ==
    LET t == norm(x) IN
    IF t \in PMSet
       \/ (contains(t, <<"p","m">>) /\ contains(t, <<"s","n","a","c","k">>))
    THEN "P"
    ELSE IF startswith(t, <<"a","t">>) \/ contains(t, <<"a","t","t","e","n","d">>)
    THEN "At"
    ELSE IF t \in BreakfastSet \/ startswith(t, <<"b","r","e","a","k">>)
            \/ startswith(t, <<"b","r","k">>)
    THEN "B"
    ELSE IF t \in LunchSet \/ startswith(t, <<"l","u","n">>)
    THEN "L"
    ELSE "None"

\* returns "At", "B", "L", "P" or "None"
meal_label_from_token(x) ==
    LET t == norm(x) IN
    IF startswith(t, <<"a","t">>) \/ startswith(t, <<"a","t","t">>)
       \/ contains(t, <<"a","t","t","e","n","d">>)
    THEN "At"
    ELSE IF t \in BreakfastSet \/ startswith(t, <<"b","r","e","a","k">>)
            \/ startswith(t, <<"b","r","k">>)
    THEN "B"
    ELSE IF t \in LunchSet \/ startswith(t, <<"l","u","n">>)
    THEN "L"
    ELSE IF t \in PMSet
            \/ (contains(t, <<"p","m">>) /\ contains(t, <<"s","n","a","c","k">>))
    THEN "P"
    ELSE "None"

\* nonempty_mark without the strip: a blank string counts as a mark
nonempty_mark_nostrip(x) ==
    IF isna(x) THEN FALSE
    ELSE IF isinstance_str(x) THEN Len(x.t) > 0
    ELSE TRUE

nonempty_mark(x) ==
    IF isna(x) THEN FALSE
    ELSE IF isinstance_str(x) THEN Len(strip(x.t)) > 0
    ELSE TRUE

(***************************************************************************)
(* DataFrame access                                                        *)
(***************************************************************************)
\* df.shape[0], df.shape[1]
shape0(df) == Len(df)
shape1(df) == IF Len(df) = 0 THEN 0 ELSE Len(df[1])

\* df.iat[r, c] with zero-based r, c inside the frame
iat(df, r, c) == df[r + 1][c + 1]

\* range(a, b) as a sequence
Range(a, b) == [i \in 1..(IF b > a THEN b - a ELSE 0) |-> a + i - 1]

Min(a, b) == IF a <= b THEN a ELSE b

\* sorted(..) of a sequence of records on their column field c
RECURSIVE insert_by_c(_, _)
insert_by_c(sq, e) ==
    IF sq = <<>> THEN <<e>>
    ELSE IF e.c < Head(sq).c THEN <<e>> \o sq
    ELSE <<Head(sq)>> \o insert_by_c(Tail(sq), e)

RECURSIVE sorted_by_c(_)
sorted_by_c(sq) ==
    IF sq = <<>> THEN <<>>
    ELSE insert_by_c(sorted_by_c(SubSeq(sq, 1, Len(sq) - 1)), sq[Len(sq)])

(***************************************************************************)
(* The fuzzy parse_sheet (Meal Count Debugger)                             *)
(***************************************************************************)
DayRowScan == 80
LabelRowWindow == 6
StudentRowScan == 200
EndRowFallback == 60
EmptyRowCols == 10
EmptyRowMin == 8

\* sum(tokens) of step 1
day_token_count(df, r) ==
    Cardinality({c \in 0..(shape1(df) - 1) : is_day_token(iat(df, r, c))})

\* step 1 taking a row with a single day token
RECURSIVE find_day_row_one_token(_, _, _)
find_day_row_one_token(df, r, hi) ==
    IF r >= hi THEN None
    ELSE IF day_token_count(df, r) >= 1 THEN r
    ELSE find_day_row_one_token(df, r + 1, hi)

\* step 1 with day_row starting at 0 instead of None
RECURSIVE find_day_row_default0(_, _, _)
find_day_row_default0(df, r, hi) ==
    IF r >= hi THEN 0
    ELSE IF day_token_count(df, r) >= 2 THEN r
    ELSE find_day_row_default0(df, r + 1, hi)

\* 1) first row r in range(r, hi) with at least 2 day tokens, else None
RECURSIVE find_day_row(_, _, _)
find_day_row(df, r, hi) ==
    IF r >= hi THEN None
    ELSE IF day_token_count(df, r) >= 2 THEN r
    ELSE find_day_row(df, r + 1, hi)

\* the truth value of (isinstance(x, str) and x.strip()) or (not pd.isna(x))
label_row_cell(x) == (isinstance_str(x) /\ strip(x.t) # <<>>) \/ ~isna(x)

\* 2) first row in range(r, hi) with any such cell, else None
RECURSIVE find_label_row(_, _, _)
find_label_row(df, r, hi) ==
    IF r >= hi THEN None
    ELSE IF \E c \in 0..(shape1(df) - 1) : label_row_cell(iat(df, r, c)) THEN r
    ELSE find_label_row(df, r + 1, hi)

\* short = v.strip().split()[0].rstrip('.')
short_day(x) == rstrip_dot(first_word(strip(x.t)))

\* 3) the (c, short) pairs of the day row, sorted
day_starts_of(df, day_row) ==
    LET cols == SelectSeq(Range(0, shape1(df)),
                          LAMBDA c : is_day_token(iat(df, day_row, c)))
    IN sorted_by_c([i \in 1..Len(cols) |->
                      [c |-> cols[i], day |-> short_day(iat(df, day_row, cols[i]))]])

\* the last block stopping one column short of the grid width
block_end_short(day_starts, i, width) ==
    IF i + 1 <= Len(day_starts) THEN day_starts[i + 1].c ELSE width - 1

\* end of the i-th block (i counts from 1 here)
block_end(day_starts, i, width) ==
    IF i + 1 <= Len(day_starts) THEN day_starts[i + 1].c ELSE width

\* the half-open column ranges the loop of step 4 walks through
block_ranges(day_starts, width) ==
    [i \in 1..Len(day_starts) |->
        [start |-> day_starts[i].c, end |-> block_end(day_starts, i, width)]]

\* 4) labels of one block: (cc, ml) for the resolved cells of the label row
block_labels(df, label_row, c, end) ==
    LET ok(cc) ==
            LET val == iat(df, label_row, cc) IN
            (isinstance_str(val) \/ ~isna(val))
            /\ meal_label_from_token(val) \in {"At", "B", "L", "P"}
        cols == SelectSeq(Range(c, end), ok)
    IN sorted_by_c([j \in 1..Len(cols) |->
          [c |-> cols[j],
           lab |-> meal_label_from_token(iat(df, label_row, cols[j]))]])

\* blocks[day] = labels on a dict kept in insertion order; start records the
\* block's first column for the entry that holds the key now
dict_set(blocks, day, start, labels) ==
    IF \E j \in 1..Len(blocks) : blocks[j].day = day
    THEN [j \in 1..Len(blocks) |->
            IF blocks[j].day = day
            THEN [day |-> day, start |-> start, labels |-> labels]
            ELSE blocks[j]]
    ELSE Append(blocks, [day |-> day, start |-> start, labels |-> labels])

RECURSIVE build_blocks(_, _, _, _, _)
build_blocks(df, label_row, day_starts, i, blocks) ==
    IF i > Len(day_starts) THEN blocks
    ELSE LET c == day_starts[i].c
             labels == block_labels(df, label_row, c,
                                    block_end(day_starts, i, shape1(df)))
         IN build_blocks(df, label_row, day_starts, i + 1,
                IF labels # <<>>
                THEN dict_set(blocks, day_starts[i].day, c, labels)
                ELSE blocks)

\* 5) first row in range(r, hi) whose column 1 holds a non-blank string
RECURSIVE find_start_row(_, _, _)
find_start_row(df, r, hi) ==
    IF r >= hi THEN None
    ELSE IF shape1(df) > 1 /\ isinstance_str(iat(df, r, 1))
            /\ strip(iat(df, r, 1).t) # <<>> THEN r
    ELSE find_start_row(df, r + 1, hi)

\* df.iloc[r, 0:10].isna().sum()
isna_sum(df, r) ==
    Cardinality({c \in 0..(Min(EmptyRowCols, shape1(df)) - 1) : isna(iat(df, r, c))})

\* 6) the loop over range(r, df.shape[0]): end_row after the loop
RECURSIVE scan_end_row(_, _, _)
scan_end_row(df, r, end_row) ==
    IF r >= shape0(df) THEN end_row
    ELSE IF isna_sum(df, r) >= EmptyRowMin THEN r - 1
    ELSE scan_end_row(df, r + 1, end_row)

\* step 6 without the fallback of the last two lines
find_end_row_no_fallback(df, start_row, fallback) ==
    scan_end_row(df, start_row, start_row)

find_end_row(df, start_row, fallback) ==
    LET end_row == scan_end_row(df, start_row, start_row) IN
    IF end_row < start_row
    THEN Min(start_row + fallback, shape0(df) - 1)
    ELSE end_row

\* the count leaving out the last student row (iloc[start_row:end_row])
mark_count_short(df, start_row, end_row, col) ==
    Cardinality({r \in start_row..(end_row - 1) : nonempty_mark(iat(df, r, col))})

\* col.apply(nonempty_mark).sum() over the student rows
mark_count(df, start_row, end_row, col) ==
    Cardinality({r \in start_row..end_row : nonempty_mark(iat(df, r, col))})

IsMeal(l) == l.lab \in {"B", "L", "P"}
IsAt(l) == l.lab = "At"

\* step 7 inferring attendance whatever the option says
block_rows_always_infer(df, b, start_row, end_row, assume) ==
    LET att_cols == SelectSeq(b.labels, IsAt)
        meal_cols == SelectSeq(b.labels, IsMeal)
        att0 == IF att_cols # <<>>
                THEN Cardinality({r \in start_row..end_row :
                        nonempty_mark(iat(df, r, att_cols[1].c))})
                ELSE 0
        any_meal ==
            Cardinality({r \in start_row..end_row :
                \E j \in 1..Len(meal_cols) :
                    nonempty_mark(iat(df, r, meal_cols[j].c))})
        att_present == IF att0 = 0 /\ meal_cols # <<>> THEN any_meal ELSE att0
    IN [j \in 1..Len(meal_cols) |->
          [Day |-> b.day, Meal |-> meal_cols[j].lab,
           MarkedCount |-> Cardinality({r \in start_row..end_row :
                              nonempty_mark(iat(df, r, meal_cols[j].c))}),
           AttendanceMarked |-> att_present,
           Col |-> meal_cols[j].c, Start |-> b.start]]

\* 7) the records of one block.  Col and Start are the label column and the
\* block's first column the counts were taken from.
block_rows(df, b, start_row, end_row, assume) ==
    LET att_cols == SelectSeq(b.labels, IsAt)
        meal_cols == SelectSeq(b.labels, IsMeal)
        att0 == IF att_cols # <<>>
                THEN mark_count(df, start_row, end_row, att_cols[1].c)
                ELSE 0
        any_meal ==
            Cardinality({r \in start_row..end_row :
                \E j \in 1..Len(meal_cols) :
                    nonempty_mark(iat(df, r, meal_cols[j].c))})
        att_present == IF att0 = 0 /\ assume /\ meal_cols # <<>>
                       THEN any_meal ELSE att0
    IN [j \in 1..Len(meal_cols) |->
          [Day |-> b.day, Meal |-> meal_cols[j].lab,
           MarkedCount |-> mark_count(df, start_row, end_row, meal_cols[j].c),
           AttendanceMarked |-> att_present,
           Col |-> meal_cols[j].c, Start |-> b.start]]

RECURSIVE count_rows(_, _, _, _, _, _)
count_rows(df, blocks, i, start_row, end_row, assume) ==
    IF i > Len(blocks) THEN <<>>
    ELSE block_rows(df, blocks[i], start_row, end_row, assume)
         \o count_rows(df, blocks, i + 1, start_row, end_row, assume)

\* what a parse_sheet call leaves: err is the reason ("" on success), the
\* other fields are its locals (None, <<>> where it returned before them)
NoParse ==
    [err |-> "", day_row |-> None, label_row |-> None, day_starts |-> <<>>,
     ranges |-> <<>>, blocks |-> <<>>, start_row |-> None, end_row |-> None,
     rows |-> <<>>, Campus |-> <<>>, Class |-> <<>>,
     WeekStart |-> None, WeekEnd |-> None]

\* parse_sheet, written as its steps in order: each step takes what the
\* steps before it have set and either returns (None, reason) or goes on
parse_counts(df, assume, day_row, label_row, day_starts, blocks, start_row, end_row) ==
    [NoParse EXCEPT
        !.day_row = day_row, !.label_row = label_row,
        !.day_starts = day_starts,
        !.ranges = block_ranges(day_starts, shape1(df)),
        !.blocks = blocks, !.start_row = start_row, !.end_row = end_row,
        !.rows = count_rows(df, blocks, 1, start_row, end_row, assume)]

parse_student_rows(df, assume, day_row, label_row, day_starts, blocks, start_row) ==
    IF start_row = None
    THEN [NoParse EXCEPT
            !.err = "No student rows detected",
            !.day_row = day_row, !.label_row = label_row,
            !.day_starts = day_starts,
            !.ranges = block_ranges(day_starts, shape1(df)),
            !.blocks = blocks]
    ELSE parse_counts(df, assume, day_row, label_row, day_starts, blocks,
                      start_row, find_end_row(df, start_row, EndRowFallback))

parse_blocks(df, assume, day_row, label_row, day_starts, blocks) ==
    IF blocks = <<>>
    THEN [NoParse EXCEPT
            !.err = "Found day row but no meal/attendance labels underneath",
            !.day_row = day_row, !.label_row = label_row,
            !.day_starts = day_starts,
            !.ranges = block_ranges(day_starts, shape1(df))]
    ELSE parse_student_rows(df, assume, day_row, label_row, day_starts, blocks,
             find_start_row(df, label_row + 1,
                            Min(label_row + StudentRowScan, shape0(df))))

parse_day_starts(df, assume, day_row, label_row, day_starts) ==
    IF day_starts = <<>>
    THEN [NoParse EXCEPT
            !.err = "Could not locate day start columns",
            !.day_row = day_row, !.label_row = label_row]
    ELSE parse_blocks(df, assume, day_row, label_row, day_starts,
                      build_blocks(df, label_row, day_starts, 1, <<>>))

parse_label_row(df, assume, day_row, label_row) ==
    IF label_row = None
    THEN [NoParse EXCEPT
            !.err = "No label row found after day row", !.day_row = day_row]
    ELSE parse_day_starts(df, assume, day_row, label_row,
                          day_starts_of(df, day_row))

parse_day_row(df, assume, day_row) ==
    IF day_row = None
    THEN [NoParse EXCEPT !.err = "No day row found"]
    ELSE parse_label_row(df, assume, day_row,
             find_label_row(df, day_row + 1,
                            Min(day_row + LabelRowWindow, shape0(df))))

parse_sheet(df, assume) ==
    parse_day_row(df, assume, find_day_row(df, 0, Min(DayRowScan, shape0(df))))

(***************************************************************************)
(* The strict parse_sheet (Meal Count Monitoring)                          *)
(***************************************************************************)
MEAL_LABELS == {"B", "L", "P"}

HeaderRows == 30
HeaderCols == 100
FacilityRow == 7
FacilityCol == 3
MonDayRowFirst == 8
MonDayRowScan == 60
MonStudentRowScan == 200
MonEndRowFallback == 80

UnknownCampus == <<"U","n","k","n","o","w","n"," ","C","a","m","p","u","s">>
UnknownClass == <<"U","n","k","n","o","w","n"," ","C","l","a","s","s">>

IsAlnum(ch) == ch \in LowerSet \/ ch \in UpperSet \/ ch \in DigitSet

RECURSIVE alnum_run(_)
alnum_run(t) ==
    IF t = <<>> \/ ~IsAlnum(Head(t)) THEN <<>>
    ELSE <<Head(t)>> \o alnum_run(Tail(t))

\* re.search(r"Class\s*([A-Za-z0-9]+)", v, re.IGNORECASE): group 1 of the
\* leftmost match, <<>> when there is no match
class_match(v) ==
    LET lv == lower(v)
        hit(i) == /\ SubSeq(lv, i, i + 4) = <<"c","l","a","s","s">>
                  /\ alnum_run(lstrip(SubSeq(v, i + 5, Len(v)))) # <<>>
        at == {i \in 1..(Len(v) - 4) : hit(i)}
    IN IF at = {} THEN <<>>
       ELSE LET i == CHOOSE j \in at : \A q \in at : j <= q
            IN alnum_run(lstrip(SubSeq(v, i + 5, Len(v))))

\* the header loop over range(0, 30) x range(min(df.shape[1], 100)) reads
\* df.iat[r, c] without a bound on r
header_raises(df) ==
    Min(shape1(df), HeaderCols) > 0 /\ shape0(df) < HeaderRows

facility_of(df) ==
    IF FacilityCol < Min(shape1(df), HeaderCols)
       /\ isinstance_str(iat(df, FacilityRow, FacilityCol))
    THEN strip(iat(df, FacilityRow, FacilityCol).t)
    ELSE <<>>

\* class_name after the header loop: the match of the last cell, in
\* row-major order over range(0, 30) x range(min(df.shape[1], 100)), whose
\* text holds "Class" and matches; <<>> for None
class_hit(df, r, c) ==
    /\ isinstance_str(iat(df, r, c))
    /\ contains(iat(df, r, c).t, <<"C","l","a","s","s">>)
    /\ class_match(iat(df, r, c).t) # <<>>

class_name_of(df) ==
    LET w == Min(shape1(df), HeaderCols)
        hits == {i \in 0..(HeaderRows * w - 1) : class_hit(df, i \div w, i % w)}
    IN IF hits = {} THEN <<>>
       ELSE LET i == CHOOSE j \in hits : \A q \in hits : q <= j
            IN class_match(iat(df, i \div w, i % w).t)

\* isinstance(x, str) and x.strip().endswith(".")
dot_cell(x) == isinstance_str(x) /\ endswith(strip(x.t), <<".">>)

RECURSIVE mon_find_day_row(_, _, _)
mon_find_day_row(df, r, hi) ==
    IF r >= hi THEN None
    ELSE IF \E c \in 0..(shape1(df) - 1) : dot_cell(iat(df, r, c)) THEN r
    ELSE mon_find_day_row(df, r + 1, hi)

mon_day_starts_of(df, day_row) ==
    LET cols == SelectSeq(Range(0, shape1(df)),
                          LAMBDA c : dot_cell(iat(df, day_row, c)))
    IN [i \in 1..Len(cols) |->
          [c |-> cols[i],
           day |-> rstrip_dot(strip(iat(df, day_row, cols[i]).t))]]

\* val.strip() in (["At"] + MEAL_LABELS), as the label it names
exact_label(x) ==
    IF ~isinstance_str(x) THEN "None"
    ELSE LET t == strip(x.t) IN
         CASE t = <<"A","t">> -> "At"
           [] t = <<"B">> -> "B"
           [] t = <<"L">> -> "L"
           [] t = <<"P">> -> "P"
           [] OTHER -> "None"

mon_block_labels(df, label_row, c, end) ==
    LET cols == SelectSeq(Range(c, end),
                   LAMBDA cc : exact_label(iat(df, label_row, cc)) # "None")
    IN sorted_by_c([j \in 1..Len(cols) |->
          [c |-> cols[j], lab |-> exact_label(iat(df, label_row, cols[j]))]])

RECURSIVE mon_build_blocks(_, _, _, _, _)
mon_build_blocks(df, label_row, day_starts, i, blocks) ==
    IF i > Len(day_starts) THEN blocks
    ELSE LET c == day_starts[i].c
             labels == mon_block_labels(df, label_row, c,
                                        block_end(day_starts, i, shape1(df)))
         IN mon_build_blocks(df, label_row, day_starts, i + 1,
                IF labels # <<>>
                THEN dict_set(blocks, day_starts[i].day, c, labels)
                ELSE blocks)

\* isinstance(v0, (int, float)) and not pd.isna(v0); a Python bool is an int
numeric_id(x) == x.k \in {"num", "bool"}

RECURSIVE mon_find_start_row(_, _, _)
mon_find_start_row(df, r, hi) ==
    IF r >= hi THEN None
    ELSE IF numeric_id(iat(df, r, 0)) /\ isinstance_str(iat(df, r, 1))
            /\ strip(iat(df, r, 1).t) # <<>> THEN r
    ELSE mon_find_start_row(df, r + 1, hi)

\* lambda x: isinstance(x, str) and x.strip() != ""
string_mark(x) == isinstance_str(x) /\ strip(x.t) # <<>>

mon_mark_count(df, start_row, end_row, col) ==
    Cardinality({r \in start_row..end_row : string_mark(iat(df, r, col))})

mon_block_rows(df, b, start_row, end_row) ==
    LET att_cols == SelectSeq(b.labels, IsAt)
        meal_cols == SelectSeq(b.labels, IsMeal)
        att_marked == IF att_cols # <<>>
                      THEN mon_mark_count(df, start_row, end_row, att_cols[1].c)
                      ELSE 0
    IN [j \in 1..Len(meal_cols) |->
          [Day |-> b.day, Meal |-> meal_cols[j].lab,
           MarkedCount |-> mon_mark_count(df, start_row, end_row, meal_cols[j].c),
           AttendanceMarked |-> att_marked,
           Col |-> meal_cols[j].c, Start |-> b.start]]

RECURSIVE mon_count_rows(_, _, _, _, _)
mon_count_rows(df, blocks, i, start_row, end_row) ==
    IF i > Len(blocks) THEN <<>>
    ELSE mon_block_rows(df, blocks[i], start_row, end_row)
         \o mon_count_rows(df, blocks, i + 1, start_row, end_row)

\* pd.to_datetime(val) gives a date: a date cell, or a number (nanoseconds
\* after the epoch, day 0); NaN gives NaT; a text or a bool raises
is_datetime(x) == x.k \in {"date", "num"}
date_of(x) == IF x.k = "date" THEN x.n ELSE 0

\* the dates found under the "Date" labels of the row above the day row
week_dates_of(df, day_row) ==
    LET date_label_row == day_row - 1
        labelled(c) ==
            strip(IF isna(iat(df, date_label_row, c)) THEN <<>>
                  ELSE to_str(iat(df, date_label_row, c))) = <<"D","a","t","e">>
        first(c) == iat(df, date_label_row + 1, c)
        second(c) == iat(df, date_label_row + 2, c)
    IN {date_of(first(c)) :
            c \in {d \in 0..(shape1(df) - 1) : labelled(d) /\ is_datetime(first(d))}}
       \cup
       {date_of(second(c)) :
            c \in {d \in 0..(shape1(df) - 1) :
                     labelled(d) /\ ~is_datetime(first(d)) /\ is_datetime(second(d))}}

SetMin(S) == CHOOSE x \in S : \A y \in S : x <= y
SetMax(S) == CHOOSE x \in S : \A y \in S : x >= y

\* The strict parse_sheet, written as its steps in order.  err: "" for a
\* dict result, "None" for return None, "IndexError" when a df.iat outside
\* the frame raises
mon_result(df, day_row, label_row, day_starts, blocks, start_row, end_row, facility, class_name, week_dates) ==
    [NoParse EXCEPT
        !.day_row = day_row, !.label_row = label_row,
        !.day_starts = day_starts,
        !.ranges = block_ranges(day_starts, shape1(df)),
        !.blocks = blocks, !.start_row = start_row, !.end_row = end_row,
        !.rows = mon_count_rows(df, blocks, 1, start_row, end_row),
        !.Campus = IF facility # <<>> THEN facility ELSE UnknownCampus,
        !.Class = IF class_name # <<>> THEN class_name ELSE UnknownClass,
        !.WeekStart = IF week_dates # {} THEN SetMin(week_dates) ELSE None,
        !.WeekEnd = IF week_dates # {} THEN SetMax(week_dates) ELSE None]

mon_failed(df, err, day_row, label_row, day_starts, blocks) ==
    [NoParse EXCEPT
        !.err = err, !.day_row = day_row, !.label_row = label_row,
        !.day_starts = day_starts,
        !.ranges = block_ranges(day_starts, shape1(df)),
        !.blocks = blocks]

mon_student_rows(df, day_row, label_row, day_starts, blocks, start_row) ==
    IF start_row = None
    THEN mon_failed(df, "None", day_row, label_row, day_starts, blocks)
    ELSE mon_result(df, day_row, label_row, day_starts, blocks, start_row,
                    find_end_row(df, start_row, MonEndRowFallback),
                    facility_of(df), class_name_of(df),
                    week_dates_of(df, day_row))

mon_blocks(df, day_row, label_row, day_starts, blocks) ==
    IF blocks = <<>>
    THEN mon_failed(df, "None", day_row, label_row, day_starts, blocks)
    ELSE IF label_row + 1 < Min(label_row + MonStudentRowScan, shape0(df))
            /\ shape1(df) < 2
    THEN mon_failed(df, "IndexError", day_row, label_row, day_starts, blocks)
    ELSE mon_student_rows(df, day_row, label_row, day_starts, blocks,
             mon_find_start_row(df, label_row + 1,
                 Min(label_row + MonStudentRowScan, shape0(df))))

mon_day_starts(df, day_row, label_row, day_starts) ==
    IF day_starts = <<>>
    THEN mon_failed(df, "None", day_row, label_row, <<>>, <<>>)
    ELSE IF label_row >= shape0(df)
    THEN mon_failed(df, "IndexError", day_row, label_row, day_starts, <<>>)
    ELSE mon_blocks(df, day_row, label_row, day_starts,
                    mon_build_blocks(df, label_row, day_starts, 1, <<>>))

mon_day_row(df, day_row) ==
    IF day_row = None
    THEN [NoParse EXCEPT !.err = "None"]
    ELSE mon_day_starts(df, day_row, day_row + 1,
                        sorted_by_c(mon_day_starts_of(df, day_row)))

parse_sheet_monitoring(df) ==
    IF header_raises(df)
    THEN [NoParse EXCEPT !.err = "IndexError"]
    ELSE mon_day_row(df, mon_find_day_row(df, MonDayRowFirst,
                                          Min(MonDayRowScan, shape0(df))))

(***************************************************************************)
(* Workbooks the drivers are run on                                        *)
(***************************************************************************)
MaxStudents == 2
MaxSheets == 2

Mon_ == Str(<<"M","o","n",".">>)
Tue_ == Str(<<"T","u","e",".">>)
Mon == Str(<<"M","o","n">>)
Wed == Str(<<" ","w","e","d","n","e","s","d","a","y">>)
At == Str(<<"A","t">>)
B == Str(<<"B">>)
L == Str(<<"L">>)
P == Str(<<"P">>)
X == Str(<<"X">>)
Blank == Str(<<" ">>)
Empty == Str(<<>>)
Al == Str(<<"A","l">>)
Bo == Str(<<"B","o">>)
DateLbl == Str(<<"D","a","t","e">>)
ClassA1 == Str(<<"C","l","a","s","s"," ","A","1">>)
CampusN == Str(<<" ","N","o","r","t","h"," ">>)
Inc_ == Str(<<"I","n","c",".">>)
at_lc == Str(<<"a","t">>)
b_lc == Str(<<"b">>)
L_sp == Str(<<" ","L"," ">>)
Br == Str(<<"B","r">>)
AmSnack == Str(<<"A","M"," ","S","n","a","c","k">>)
BrkAttend == Str(<<"B","r","k"," ","a","t","t","e","n","d">>)
LunAttend == Str(<<"L","u","n"," ","a","t","t","e","n","d">>)
PmSnackAttend == Str(<<"p","m"," ","s","n","a","c","k"," ","a","t","t","e","n","d">>)
BrkPmSnack == Str(<<"B","r","k"," ","p","m"," ","s","n","a","c","k">>)
LunPmSnack == Str(<<"L","u","n"," ","p","m"," ","s","n","a","c","k">>)
Parent == Str(<<"p","a","r","e","n","t">>)

\* (day row, label row) pairs over the columns 0..4
Headers ==
    { << <<NaN, NaN, Mon_, NaN, Tue_>>, <<NaN, NaN, At, B, L>> >>,
      << <<NaN, NaN, Mon_, Tue_, Mon_>>, <<NaN, NaN, B, L, P>> >>,
      << <<NaN, NaN, Mon, Wed, NaN>>, <<NaN, NaN, B, At, L>> >>,
      << <<NaN, NaN, Mon_, NaN, NaN>>, <<NaN, NaN, At, B, NaN>> >>,
      << <<Mon_, Tue_, NaN, NaN, NaN>>, <<At, Empty, X, Num(1), NaN>> >>,
      << <<NaN, NaN, Mon_, NaN, Tue_>>, <<NaN, NaN, X, Blank, Num(0)>> >>,
      << <<NaN, NaN, X, NaN, Al>>, <<NaN, NaN, At, B, L>> >> }


\* rows above the day row: a title holding one day name, a second day row
PreRows ==
    { <<>>,
      << <<Mon_, NaN, NaN, NaN, NaN>> >>,
      << <<NaN, NaN, Tue_, Mon_, NaN>> >>,
      << <<NaN, Wed, NaN, NaN, NaN>>, <<NaN, NaN, Tue_, Mon_, NaN>> >> }

StudentRows ==
    { <<Num(1), Al, X, X, NaN>>,
      <<Num(2), Bo, NaN, X, X>>,
      <<Num(3), Al, X, NaN, X>>,
      <<Bool(TRUE), Bo, Blank, Num(0), Bool(FALSE)>>,
      <<NaN, Al, X, Empty, Num(1)>>,
      <<Num(6), Bo, NaN, NaN, NaN>>,
      <<NaN, NaN, NaN, NaN, NaN>> }

TopPads == {0, 8, 30, 59, 60, 79, 80}
Gaps == {0, 4, 5}
Bottoms == {0, 30}
Widths == {5, 10}

BlankRow(w) == [c \in 1..w |-> NaN]
Blanks(n, w) == [i \in 1..n |-> BlankRow(w)]
PadRow(row, w) == SubSeq(row, 1, Min(Len(row), w))
                  \o [c \in 1..(w - Len(row)) |-> NaN]

\* A worksheet of the file: top blank rows, the body rows, bottom blank rows,
\* all cut or filled with empty cells to the sheet's width w
Sheet(top, body, bottom, w) ==
    [top |-> top, body |-> body, bottom |-> bottom, w |-> w]

\* pd.read_excel(file_like, sheet_name=s, header=None): the sheet's grid
read_excel(sh) ==
    Blanks(sh.top, sh.w)
    \o [i \in 1..Len(sh.body) |-> PadRow(sh.body[i], sh.w)]
    \o Blanks(sh.bottom, sh.w)

Body(pre, h, gap, students) ==
    pre \o <<h[1]>> \o Blanks(gap, 5) \o <<h[2]>> \o students

StudentSeqs == UNION {[1..n -> StudentRows] : n \in 0..MaxStudents}

TwoStudents == << <<Num(1), Al, X, X, NaN>>, <<Num(2), Bo, NaN, X, X>> >>

\* sheets that vary the header region
HeaderSheets ==
    {Sheet(top, Body(pre, h, gap, TwoStudents), bottom, w) :
        top \in TopPads, pre \in PreRows, h \in Headers, gap \in Gaps,
        bottom \in Bottoms, w \in Widths}

\* sheets that vary the student rows
H1 == << <<NaN, NaN, Mon_, NaN, Tue_>>, <<NaN, NaN, At, B, L>> >>
H2 == << <<NaN, NaN, Mon_, Tue_, Mon_>>, <<NaN, NaN, B, L, P>> >>
H3 == << <<NaN, NaN, Mon, Wed, NaN>>, <<NaN, NaN, B, At, L>> >>

StudentSheets ==
    {Sheet(30, Body(<<>>, h, 0, st), 1, w) :
        h \in {H1, H2, H3}, st \in StudentSeqs, w \in Widths}

\* sheets of unusual shape: no rows, one column, the day row as last row
OddSheets ==
    { Sheet(0, <<>>, 0, 0),
      Sheet(3, <<>>, 0, 5),
      Sheet(40, <<>>, 0, 1),
      Sheet(30, << <<Mon_>>, <<B>>, <<X>> >>, 0, 1),
      Sheet(30, <<H1[1]>>, 0, 5),
      Sheet(3, <<H1[1]>>, 0, 5) }

\* sheets with week dates: row 7 (campus in column 3, class text), a "Date"
\* label above the day row, the day row with the date under the label
EmptyRows(n) == [i \in 1..n |-> <<>>]

CampusRows == { <<ClassA1, NaN, NaN, CampusN>>, <<>> }
DateLabels == { <<NaN, NaN, At, B, L, P, B>>, <<NaN, NaN, At, B, B, L, B>> }
Dates == {105, 112, 203}
DatedStudents ==
    { <<Num(1), Al, X, X, X, X, X>>, <<Num(1), Al, X, NaN, X, X, NaN>> }

Dated(campus, d, labels, st) ==
    Sheet(7, <<campus>> \o EmptyRows(21)
             \o << <<DateLbl>>, <<Dt(d), NaN, Mon_, NaN, NaN, NaN, Tue_>>,
                   labels, st >>, 1, 10)

DatedSheets ==
    {Dated(campus, d, labels, st) :
        campus \in CampusRows, d \in Dates, labels \in DateLabels,
        st \in DatedStudents}

\* sheets that vary the label row and the rows around it
DayRow7 == <<NaN, NaN, Mon_, NaN, NaN, Tue_, NaN>>

LabelSheets ==
    { Sheet(30, <<DayRow7,
                  <<NaN, NaN, BrkAttend, LunAttend, BrkPmSnack, LunPmSnack,
                    Parent, PmSnackAttend>>>> \o TwoStudents, 1, 10),
      Sheet(30, <<DayRow7, <<NaN, NaN, B, AmSnack, L, At, NaN>>>>
                \o TwoStudents, 1, 10),
      Sheet(30, <<DayRow7, <<NaN, NaN, at_lc, b_lc, L_sp, Br, P>>>>
                \o TwoStudents, 1, 10),
      Sheet(30, <<DayRow7, <<NaN, NaN, Blank>>, <<NaN, NaN, At, B, L, B, L>>>>
                \o TwoStudents, 1, 10),
      Sheet(30, <<DayRow7, <<Empty>>, <<NaN, NaN, At, B, L, B, L>>>>
                \o TwoStudents, 1, 10),
      Sheet(30, << <<NaN, Inc_>>, <<>>, DayRow7, <<NaN, NaN, At, B, L, B, L>>>>
                \o TwoStudents, 1, 10),
      Sheet(30, <<DayRow7, <<NaN, NaN, At, B, L, B, L>>,
                  <<Num(1), Blank, X, X>>, <<Num(2), Num(5), X, X>>,
                  <<Num(3), Al, X, X>>, <<Num(4), Bo, NaN, X>>>>, 1, 10) }

\* sheets whose first student row is the last row of the 200-row scan, or
\* the first row after it
FarStudentSheets ==
    {Sheet(30, <<DayRow7, <<NaN, NaN, At, B, L, B, L>>>> \o EmptyRows(n)
               \o TwoStudents, 1, 10) : n \in {198, 199}}

FirstSheets ==
    HeaderSheets \cup StudentSheets \cup OddSheets \cup DatedSheets
    \cup LabelSheets \cup FarStudentSheets

\* sheets of the workbooks with several sheets
BookSheets ==
    { Sheet(3, <<>>, 0, 5),
      Sheet(40, <<>>, 0, 10),
      Sheet(30, Body(<<>>, H1, 0, TwoStudents), 0, 10),
      Sheet(30, Body(<<>>, H2, 0, TwoStudents), 0, 10),
      Sheet(30, <<H1[1]>>, 0, 5),
      Dated(<<>>, 105, <<NaN, NaN, At, B, L, P, B>>,
            <<Num(1), Al, X, X, X, X, X>>),
      Dated(<<ClassA1, NaN, NaN, CampusN>>, 203, <<NaN, NaN, At, B, L, P, B>>,
            <<Num(1), Al, X, NaN, X, X, NaN>>) }

Workbooks ==
    {<<g>> : g \in FirstSheets} \cup UNION {[1..n -> BookSheets] : n \in 2..MaxSheets}

(***************************************************************************)
(* The batch drivers                                                       *)
(***************************************************************************)
\* the workbook build_report writes, before it is written
NoOut == [Dashboard_Month |-> {}, Dashboard_Month_Week |-> {},
          Summary_All |-> <<>>]

Init ==
    /\ xls \in Workbooks
    /\ driver \in {"build_all", "build_report"}
    /\ assume_attendance_if_any_meal \in
          IF driver = "build_all" THEN BOOLEAN ELSE {TRUE}
    /\ s = 0
    /\ parsed = NoParse
    /\ all_records = <<>>
    /\ debug = <<>>
    /\ out = NoOut
    /\ pc = "loop"

\* the info dict of a successful parse
info_of(p) ==
    [day_row |-> p.day_row, label_row |-> p.label_row,
     start_row |-> p.start_row, end_row |-> p.end_row, blocks |-> p.blocks]

\* build_all, one sheet whose parse gives an error
BuildAllErrorOn(p) ==
    /\ p.err # ""
    /\ parsed' = p
    /\ debug' = Append(debug, [Sheet |-> s, Status |-> "ERROR", Detail |-> p.err])
    /\ s' = s + 1
    /\ UNCHANGED <<xls, assume_attendance_if_any_meal, driver, all_records, out,
                   pc>>

BuildAllError ==
    /\ pc = "loop" /\ driver = "build_all" /\ s < Len(xls)
    /\ BuildAllErrorOn(parse_sheet(read_excel(xls[s + 1]),
                                   assume_attendance_if_any_meal))

\* build_all, one sheet that parses
BuildAllOKOn(p) ==
    /\ p.err = ""
    /\ parsed' = p
    /\ debug' = Append(debug,
                   [Sheet |-> s, Status |-> "OK", Detail |-> info_of(p)])
    /\ all_records' = all_records \o
          [j \in 1..Len(p.rows) |->
             [Sheet |-> s, Day |-> p.rows[j].Day, Meal |-> p.rows[j].Meal,
              MarkedCount |-> p.rows[j].MarkedCount,
              AttendanceMarked |-> p.rows[j].AttendanceMarked,
              Col |-> p.rows[j].Col, Start |-> p.rows[j].Start]]
    /\ s' = s + 1
    /\ UNCHANGED <<xls, assume_attendance_if_any_meal, driver, out, pc>>

BuildAllOK ==
    /\ pc = "loop" /\ driver = "build_all" /\ s < Len(xls)
    /\ BuildAllOKOn(parse_sheet(read_excel(xls[s + 1]),
                                assume_attendance_if_any_meal))

BuildAllReturn ==
    /\ pc = "loop" /\ driver = "build_all" /\ s = Len(xls)
    /\ pc' = "done"
    /\ UNCHANGED <<xls, assume_attendance_if_any_meal, driver, s, parsed,
                   all_records, debug, out>>

\* the flag without the attendance condition
Issue_no_attendance(row) == row.MarkedCount = 0

\* counts["Issue"]
Issue(row) == row.MarkedCount = 0 /\ row.AttendanceMarked > 0

UnknownWeek == <<"U","n","k","n","o","w","n"," ","W","e","e","k">>

\* wk: f"{WeekStart} to {WeekEnd}", or "Unknown Week"
week_of(p) ==
    IF p.WeekStart # None
    THEN date_str(p.WeekStart) \o <<" ","t","o"," ">> \o date_str(p.WeekEnd)
    ELSE UnknownWeek

\* build_report, one sheet that is skipped: not parsed or parsed["Counts"].empty
BuildReportSkipOn(p) ==
    /\ p.err = "None" \/ (p.err = "" /\ p.rows = <<>>)
    /\ parsed' = p
    /\ s' = s + 1
    /\ UNCHANGED <<xls, assume_attendance_if_any_meal, driver, all_records,
                   debug, out, pc>>

BuildReportSkip ==
    /\ pc = "loop" /\ driver = "build_report" /\ s < Len(xls)
    /\ BuildReportSkipOn(parse_sheet_monitoring(read_excel(xls[s + 1])))

\* build_report, one sheet on which parse_sheet raises: nothing catches it
BuildReportRaiseOn(p) ==
    /\ p.err = "IndexError"
    /\ parsed' = p
    /\ pc' = "raised"
    /\ UNCHANGED <<xls, assume_attendance_if_any_meal, driver, s, all_records,
                   debug, out>>

BuildReportRaise ==
    /\ pc = "loop" /\ driver = "build_report" /\ s < Len(xls)
    /\ BuildReportRaiseOn(parse_sheet_monitoring(read_excel(xls[s + 1])))

\* build_report, one sheet with counts
BuildReportRecordsOn(p) ==
    /\ p.err = "" /\ p.rows # <<>>
    /\ parsed' = p
    /\ all_records' = all_records \o
          [j \in 1..Len(p.rows) |->
             [Sheet |-> s, Campus |-> p.Campus, Class |-> p.Class,
              Week |-> week_of(p),
              Day |-> p.rows[j].Day, Meal |-> p.rows[j].Meal,
              MarkedCount |-> p.rows[j].MarkedCount,
              AttendanceMarked |-> p.rows[j].AttendanceMarked,
              Issue_MissingRecording |-> Issue(p.rows[j]),
              Col |-> p.rows[j].Col, Start |-> p.rows[j].Start]]
    /\ s' = s + 1
    /\ UNCHANGED <<xls, assume_attendance_if_any_meal, driver, debug, out, pc>>

BuildReportRecords ==
    /\ pc = "loop" /\ driver = "build_report" /\ s < Len(xls)
    /\ BuildReportRecordsOn(parse_sheet_monitoring(read_excel(xls[s + 1])))

\* parse_week_start(s): the date before "to", NaT when there is no "to" or
\* the text before it is no date
NaT == None

digit_val(ch) == (CHOOSE i \in 1..Len(Digits) : Digits[i] = ch) - 1

\* pd.to_datetime(start).date() of a text; NaT where it raises
to_date(t) ==
    IF Len(t) = 3 /\ \A i \in 1..3 : t[i] \in DigitSet
    THEN 100 * digit_val(t[1]) + 10 * digit_val(t[2]) + digit_val(t[3])
    ELSE NaT

\* s.split("to")[0]
RECURSIVE split_to_head(_)
split_to_head(t) ==
    IF t = <<>> \/ startswith(t, <<"t","o">>) THEN <<>>
    ELSE <<Head(t)>> \o split_to_head(Tail(t))

parse_week_start(wk) ==
    IF contains(wk, <<"t","o">>) THEN to_date(strip(split_to_head(wk)))
    ELSE NaT

\* pd.to_datetime(WeekStart).dt.to_period("M").astype(str)
month_str(ws) ==
    IF ws = NaT THEN <<"N","a","T">> ELSE <<Digits[(ws \div 100) + 1]>>

\* the columns WeekStart and Month added to a record of summary_df
WeekStartOf(rec) == parse_week_start(rec.Week)
MonthOf(rec) == month_str(WeekStartOf(rec))

\* miss and meals3, as the positions of their rows in summary_df
miss(recs) == {i \in 1..Len(recs) : recs[i].Issue_MissingRecording}
meals3(recs) == {i \in 1..Len(recs) : recs[i].Meal \in MEAL_LABELS}

day_key(rec) ==
    [Campus |-> rec.Campus, Class |-> rec.Class, Week |-> rec.Week,
     WeekStart |-> WeekStartOf(rec), Month |-> MonthOf(rec), Day |-> rec.Day]

\* int((s > 0).sum() == 3) of one group
all3_of(recs, k) ==
    IF Cardinality({i \in meals3(recs) :
                      day_key(recs[i]) = k /\ recs[i].MarkedCount > 0}) = 3
    THEN 1 ELSE 0

\* daily_ok: groupby leaves out the rows whose WeekStart is NaT
daily_ok(recs) ==
    {[key |-> k, All3MealsRecorded |-> all3_of(recs, k)] :
        k \in {day_key(recs[i]) :
                 i \in {j \in meals3(recs) : WeekStartOf(recs[j]) # NaT}}}

\* the group key of a rollup: (Campus, Month), with Week when weekly
rollup_key(campus, month, week, weekly) ==
    IF weekly THEN [Campus |-> campus, Month |-> month, Week |-> week]
    ELSE [Campus |-> campus, Month |-> month]

miss_key(rec, weekly) == rollup_key(rec.Campus, MonthOf(rec), rec.Week, weekly)
kpi_key(d, weekly) == rollup_key(d.key.Campus, d.key.Month, d.key.Week, weekly)

\* campus_month_missing / campus_week_missing: size() of one group
missing_count(recs, weekly, k) ==
    Cardinality({i \in miss(recs) : miss_key(recs[i], weekly) = k})

\* campus_month_kpi / campus_week_kpi: mean() of one group as num/den; the
\* value 0 is num 0, den 1, which is also what fillna gives a missing mean
mean_of(days) ==
    IF {d \in days : d.All3MealsRecorded = 1} = {} THEN [num |-> 0, den |-> 1]
    ELSE [num |-> Cardinality({d \in days : d.All3MealsRecorded = 1}),
          den |-> Cardinality(days)]

kpi_of(recs, weekly, k) ==
    mean_of({d \in daily_ok(recs) : kpi_key(d, weekly) = k})

\* pd.merge(.., how="outer").fillna(..): the rows of a dashboard (their
\* order in the written sheet is left out)
dashboard(recs, weekly) ==
    {[key |-> k,
      MissingMealRecordings |-> missing_count(recs, weekly, k),
      Pct_Days_All3MealsRecorded |-> kpi_of(recs, weekly, k)] :
        k \in {miss_key(recs[i], weekly) : i \in miss(recs)}
              \cup {kpi_key(d, weekly) : d \in daily_ok(recs)}}

BuildReportReturn ==
    /\ pc = "loop" /\ driver = "build_report" /\ s = Len(xls)
    /\ pc' = "done"
    /\ out' = [Dashboard_Month |-> dashboard(all_records, FALSE),
               Dashboard_Month_Week |-> dashboard(all_records, TRUE),
               Summary_All |-> all_records]
    /\ UNCHANGED <<xls, assume_attendance_if_any_meal, driver, s, parsed,
                   all_records, debug>>

Next ==
    \/ BuildAllError
    \/ BuildAllOK
    \/ BuildAllReturn
    \/ BuildReportSkip
    \/ BuildReportRaise
    \/ BuildReportRecords
    \/ BuildReportReturn

Spec == Init /\ [][Next]_vars

(***************************************************************************)
(* Properties                                                              *)
(***************************************************************************)
\* a parse_sheet call has been made, and the frame it was made on
HasParsed == s > 0 \/ pc = "raised"
LastDf == read_excel(xls[IF pc = "raised" THEN s + 1 ELSE s])

\* the records build_all or build_report appended for the last sheet
LastRecords == SelectSeq(all_records, LAMBDA rec : rec.Sheet = s - 1)

Cells(df) == {iat(df, r, c) : r \in 0..(shape0(df) - 1), c \in 0..(shape1(df) - 1)}

TokenCount(df, r) ==
    Cardinality({c \in 0..(shape1(df) - 1) : is_day_token(iat(df, r, c))})

DayRowIsFirst(df) ==
    /\ parsed.day_row >= 0
    /\ parsed.day_row < 80 /\ parsed.day_row < shape0(df)
    /\ TokenCount(df, parsed.day_row) >= 2
    /\ \A r \in 0..(parsed.day_row - 1) : TokenCount(df, r) < 2

\* C1: in the fuzzy parse_sheet a returned day row is below min(80, height),
\* holds at least 2 day tokens, and no row above it holds 2 day tokens
C1_DayRowIsFirst ==
    (driver = "build_all" /\ HasParsed /\ parsed.day_row # None)
        => DayRowIsFirst(LastDf)

OneAboveTwoBelow(df) ==
    /\ \E r \in 0..(parsed.day_row - 1) : TokenCount(df, r) = 1
    /\ \E r \in (parsed.day_row + 1)..(shape0(df) - 1) : TokenCount(df, r) >= 2

\* the day row found lies below a row with one day token and above another
\* row with two
C1_Witness ==
    /\ driver = "build_all" /\ HasParsed /\ parsed.day_row # None
    /\ OneAboveTwoBelow(LastDf)

MarkedCountRight(df, recs) ==
    /\ Len(recs) = Len(parsed.rows)
    /\ \A j \in 1..Len(recs) :
          /\ meal_label_from_token(iat(df, parsed.label_row, recs[j].Col))
             = recs[j].Meal
          /\ recs[j].MarkedCount =
                Cardinality({r \in parsed.start_row..parsed.end_row :
                                nonempty_mark(iat(df, r, recs[j].Col))})

\* C2: every record of the fuzzy parse_sheet carries as MarkedCount the
\* number of student rows start_row..end_row marked in its label's column
C2_MarkedCount ==
    (driver = "build_all" /\ HasParsed /\ parsed.err = "")
        => MarkedCountRight(LastDf, LastRecords)

TwoAndOne(recs) ==
    \E i, j \in 1..Len(recs) : recs[i].MarkedCount = 2 /\ recs[j].MarkedCount = 1

\* a record counting two marked rows next to a record counting one
C2_Witness ==
    /\ driver = "build_all" /\ HasParsed /\ parsed.err = ""
    /\ parsed.end_row > parsed.start_row
    /\ TwoAndOne(LastRecords)

NoDayToken(df) == \A x \in Cells(df) : ~is_day_token(x)

\* C3: a grid without any day token gives 'No day row found', which
\* build_all logs as an error, appending no record for the sheet
C3_NoDayRow ==
    (driver = "build_all" /\ HasParsed /\ NoDayToken(LastDf)) =>
        /\ parsed.err = "No day row found"
        /\ debug[Len(debug)] =
              [Sheet |-> s - 1, Status |-> "ERROR", Detail |-> "No day row found"]
        /\ LastRecords = <<>>

LabelsNoDays(df) ==
    NoDayToken(df) /\ \E x \in Cells(df) : meal_label_from_token(x) = "B"

\* a grid with labels and names but no day token has been parsed
C3_Witness ==
    /\ driver = "build_all" /\ HasParsed
    /\ parsed.err = "No day row found"
    /\ LabelsNoDays(LastDf)

\* the day-start test of the driver's parser
IsDayStart(x) == IF driver = "build_all" THEN is_day_token(x) ELSE dot_cell(x)

BlocksPartition(df, R, w) ==
    LET starts == {c \in 0..(w - 1) : IsDayStart(iat(df, parsed.day_row, c))}
        first == CHOOSE c \in starts : \A d \in starts : c <= d
    IN /\ Len(R) = Cardinality(starts)
       /\ \A i \in 1..Len(R) : R[i].start \in starts /\ R[i].start < R[i].end
       /\ \A i \in 1..(Len(R) - 1) : R[i].end = R[i + 1].start
       /\ R[1].start = first
       /\ R[Len(R)].end = w
       /\ \A c \in 0..(w - 1) :
             Cardinality({i \in 1..Len(R) : R[i].start <= c /\ c < R[i].end})
             = IF c >= first THEN 1 ELSE 0
       /\ \A k \in 1..Len(parsed.blocks) :
             \E i \in 1..Len(R) :
                /\ R[i].start = parsed.blocks[k].start
                /\ \A j \in 1..Len(parsed.blocks[k].labels) :
                      /\ R[i].start <= parsed.blocks[k].labels[j].c
                      /\ parsed.blocks[k].labels[j].c < R[i].end

\* C4: the day blocks are half-open column ranges with start < end, ordered,
\* each ending where the next starts, and covering exactly
\* [first day-start column, grid width)
C4_BlocksPartition ==
    (HasParsed /\ parsed.day_starts # <<>>)
        => BlocksPartition(LastDf, parsed.ranges, xls[IF pc = "raised" THEN s + 1 ELSE s].w)

\* three day blocks on a sheet wider than its last day start, strict parser
C4_Witness ==
    /\ driver = "build_report" /\ HasParsed
    /\ Len(parsed.ranges) = 3
    /\ parsed.ranges[3].end - parsed.ranges[3].start > 1
    /\ Len(parsed.blocks) >= 2

\* the mark rule as the specification words it
Marked(x) ==
    CASE x.k = "nan" -> FALSE
      [] x.k = "str" -> \E i \in 1..Len(x.t) : x.t[i] \notin {" ", "\t", "\n"}
      [] OTHER -> TRUE

\* C5: nonempty_mark is false for absent values and blank strings, true for
\* numbers (zero too), booleans and strings with a non-blank character
C5_NonemptyMark ==
    HasParsed => \A x \in Cells(LastDf) : nonempty_mark(x) = Marked(x)

\* the cells judged include zero, False, "", " ", an absent cell and "X"
C5_Witness ==
    /\ HasParsed
    /\ {Num(0), Bool(FALSE), Empty, Blank, NaN, X} \subseteq Cells(LastDf)
    /\ nonempty_mark(Num(0)) /\ ~nonempty_mark(Blank)

\* rows of the student range with a mark in column c, by nonempty_mark
MarkedRows(df, c) ==
    {r \in parsed.start_row..parsed.end_row : nonempty_mark(iat(df, r, c))}

\* a block whose (first) Attendance column is unmarked in the student rows
\* while some meal column is marked there
BlankAtWithMeal(df, b) ==
    /\ \E j \in 1..Len(b.labels) : b.labels[j].lab = "At"
    /\ LET a == b.labels[CHOOSE j \in 1..Len(b.labels) :
                    /\ b.labels[j].lab = "At"
                    /\ \A i \in 1..(j - 1) : b.labels[i].lab # "At"].c
       IN MarkedRows(df, a) = {}
    /\ \E j \in 1..Len(b.labels) :
          b.labels[j].lab \in {"B", "L", "P"} /\ MarkedRows(df, b.labels[j].c) # {}

AttendanceInference(df, recs) ==
    \A k \in 1..Len(parsed.blocks) :
        BlankAtWithMeal(df, parsed.blocks[k]) =>
            LET b == parsed.blocks[k]
                meals == {b.labels[j].c : j \in
                            {i \in 1..Len(b.labels) :
                                b.labels[i].lab \in {"B", "L", "P"}}}
                any == UNION {MarkedRows(df, c) : c \in meals}
            IN \A j \in 1..Len(recs) :
                  recs[j].Start = b.start =>
                      IF assume_attendance_if_any_meal
                      THEN /\ recs[j].AttendanceMarked = Cardinality(any)
                           /\ recs[j].AttendanceMarked >= 1
                      ELSE recs[j].AttendanceMarked = 0

\* C6: for a block with a blank Attendance column and a marked meal column,
\* AttendanceMarked is the number of student rows with any meal column
\* marked (>= 1) when assume_attendance_if_any_meal is on, and 0 when off
C6_AttendanceInference ==
    (driver = "build_all" /\ HasParsed /\ parsed.err = "")
        => AttendanceInference(LastDf, LastRecords)

InferredFrom(df, recs, n) ==
    \E k \in 1..Len(parsed.blocks) :
        /\ BlankAtWithMeal(df, parsed.blocks[k])
        /\ \E j \in 1..Len(recs) :
              /\ recs[j].Start = parsed.blocks[k].start
              /\ recs[j].AttendanceMarked = n

\* such a block counted with the option on, two rows inferred present
C6_Witness ==
    /\ driver = "build_all" /\ HasParsed /\ parsed.err = ""
    /\ assume_attendance_if_any_meal
    /\ InferredFrom(LastDf, LastRecords, 2)

\* such a block counted with the option off
C6_WitnessOff ==
    /\ driver = "build_all" /\ HasParsed /\ parsed.err = ""
    /\ ~assume_attendance_if_any_meal
    /\ InferredFrom(LastDf, LastRecords, 0)

BreakfastFlagged(df, recs) ==
    \A j \in 1..Len(recs) :
        (/\ recs[j].Meal = "B"
         /\ recs[j].AttendanceMarked = parsed.end_row - parsed.start_row + 1
         /\ \A r \in parsed.start_row..parsed.end_row :
               ~string_mark(iat(df, r, recs[j].Col)))
        => recs[j].Issue_MissingRecording

\* C7: in build_report's records Issue_MissingRecording is true exactly when
\* MarkedCount = 0 and AttendanceMarked > 0; a block with attendance marked
\* on every student row and Breakfast on none flags its Breakfast record
C7_IssueFlag ==
    driver = "build_report" =>
        /\ \A i \in 1..Len(all_records) :
              all_records[i].Issue_MissingRecording
              <=> (all_records[i].MarkedCount = 0
                    /\ all_records[i].AttendanceMarked > 0)
        /\ (s > 0 /\ parsed.err = "") => BreakfastFlagged(LastDf, LastRecords)

\* attendance marked for both of two students, Breakfast for none
C7_Witness ==
    /\ driver = "build_report" /\ s > 0 /\ parsed.err = ""
    /\ parsed.end_row = parsed.start_row + 1
    /\ \E j \in 1..Len(LastRecords) :
          /\ LastRecords[j].Meal = "B"
          /\ LastRecords[j].AttendanceMarked = 2
          /\ LastRecords[j].MarkedCount = 0
          /\ LastRecords[j].Issue_MissingRecording

\* C8: no sheet makes a driver raise: a malformed sheet gives a failure
\* outcome and the sheets after it are still processed
C8_NeverRaises ==
    /\ pc # "raised"
    /\ pc = "done" => s = Len(xls)

\* the sheet's parse failed, by the parser of the driver
Failed(k) ==
    IF driver = "build_all"
    THEN parse_sheet(read_excel(xls[k]), assume_attendance_if_any_meal).err # ""
    ELSE parse_sheet_monitoring(read_excel(xls[k])).err # ""

\* C9: once a driver has returned, every sheet that failed to parse has
\* exactly one diagnostic entry, naming a reason, and the entries are in
\* sheet order
C9_FailuresRecorded ==
    (pc = "done") =>
        /\ \A k \in 1..Len(xls) :
              Failed(k) =>
                 Cardinality({i \in 1..Len(debug) :
                    /\ debug[i].Sheet = k - 1
                    /\ debug[i].Status = "ERROR"
                    /\ debug[i].Detail # ""}) = 1
        /\ \A i, j \in 1..Len(debug) : i < j => debug[i].Sheet < debug[j].Sheet

\* C10: build_all's records are ordered by sheet, then by the start column
\* of their day block, then by label column
C10_RecordOrder ==
    driver = "build_all" =>
        \A i, j \in 1..Len(all_records) :
            i < j =>
               \/ all_records[i].Sheet < all_records[j].Sheet
               \/ /\ all_records[i].Sheet = all_records[j].Sheet
                  /\ all_records[i].Start < all_records[j].Start
               \/ /\ all_records[i].Sheet = all_records[j].Sheet
                  /\ all_records[i].Start = all_records[j].Start
                  /\ all_records[i].Col < all_records[j].Col

\* the records whose Week parses into a week start
ParsableWeeks(recs) ==
    SelectSeq(recs, LAMBDA rec : parse_week_start(rec.Week) # NaT)

\* C11: records of build_report whose Week does not parse stay in
\* Summary_All and contribute to no row of Dashboard_Month or
\* Dashboard_Month_Week: both sheets are what the records with a parsable
\* Week alone give
C11_UnknownWeekExcluded ==
    (driver = "build_report" /\ pc = "done") =>
        /\ out.Summary_All = all_records
        /\ out.Dashboard_Month = dashboard(ParsableWeeks(all_records), FALSE)
        /\ out.Dashboard_Month_Week
              = dashboard(ParsableWeeks(all_records), TRUE)

\* the four rules of the classifier, each on its own
AttendanceRule(t) ==
    startswith(t, <<"a","t">>) \/ contains(t, <<"a","t","t","e","n","d">>)
BreakfastRule(t) ==
    \/ t \in BreakfastSet
    \/ startswith(t, <<"b","r","e","a","k">>) \/ startswith(t, <<"b","r","k">>)
LunchRule(t) == t \in LunchSet \/ startswith(t, <<"l","u","n">>)
PMSnackRule(t) ==
    \/ t \in PMSet
    \/ (contains(t, <<"p","m">>) /\ contains(t, <<"s","n","a","c","k">>))

FirstMatch(x, t) ==
    /\ AttendanceRule(t) => meal_label_from_token(x) = "At"
    /\ (BreakfastRule(t) /\ ~AttendanceRule(t))
          => meal_label_from_token(x) = "B"
    /\ (LunchRule(t) /\ ~AttendanceRule(t) /\ ~BreakfastRule(t))
          => meal_label_from_token(x) = "L"
    /\ (PMSnackRule(t) /\ ~AttendanceRule(t) /\ ~BreakfastRule(t)
           /\ ~LunchRule(t))
          => meal_label_from_token(x) = "P"
    /\ (~AttendanceRule(t) /\ ~BreakfastRule(t) /\ ~LunchRule(t)
           /\ ~PMSnackRule(t))
          => meal_label_from_token(x) = "None"

\* C12: meal_label_from_token gives the first matching category in the order
\* Attendance, Breakfast, Lunch, PM-Snack, and none for a token matching no
\* rule
C12_FirstMatchWins ==
    HasParsed =>
        \A x \in {y \in Cells(LastDf) : ~isna(y)} : FirstMatch(x, norm(x))

\* the labels resolved on a label row holding "Brk attend", "Lun attend",
\* "Brk pm snack", "Lun pm snack", "parent" and "pm snack attend"
C12_Witness ==
    /\ driver = "build_all" /\ HasParsed /\ parsed.err = ""
    /\ shape1(LastDf) >= 8
    /\ {BrkAttend, LunAttend, BrkPmSnack, LunPmSnack, Parent, PmSnackAttend}
          \subseteq {iat(LastDf, parsed.label_row, c) : c \in 2..7}
    /\ Len(parsed.blocks) = 2
    /\ parsed.blocks[1].labels
          = <<[c |-> 2, lab |-> "At"], [c |-> 3, lab |-> "At"],
              [c |-> 4, lab |-> "B"]>>
    /\ parsed.blocks[2].labels
          = <<[c |-> 5, lab |-> "L"], [c |-> 7, lab |-> "At"]>>

\* a meal label (B, L or P) is resolved on the label row inside the range
MealLabelIn(df, rg) ==
    \E cc \in rg.start..(rg.end - 1) :
        /\ ~isna(iat(df, parsed.label_row, cc))
        /\ meal_label_from_token(iat(df, parsed.label_row, cc)) \in MEAL_LABELS

RepeatedDaysKept(df, recs) ==
    \A i, j \in 1..Len(parsed.day_starts) :
        (i # j /\ parsed.day_starts[i].day = parsed.day_starts[j].day
           /\ MealLabelIn(df, parsed.ranges[i]))
        => \E k \in 1..Len(recs) : recs[k].Start = parsed.day_starts[i].c

\* C13: in the fuzzy parse_sheet two day starts with the same day name give
\* two blocks, and each of them that has a meal label contributes records
C13_RepeatedDayKept ==
    (driver = "build_all" /\ HasParsed /\ parsed.err = "")
        => RepeatedDaysKept(LastDf, LastRecords)

\* the number of empty cells among the first 10 columns of row r
EmptyInFirstTen(df, r) ==
    Cardinality({c \in 0..9 : c < shape1(df) /\ isna(iat(df, r, c))})

MostlyEmptyRows(df) ==
    {r \in parsed.start_row..(shape0(df) - 1) : EmptyInFirstTen(df, r) >= 8}

EndRowRule(df, bound) ==
    IF MostlyEmptyRows(df) # {}
    THEN parsed.end_row = SetMin(MostlyEmptyRows(df)) - 1
    ELSE parsed.end_row = Min(parsed.start_row + bound, shape0(df) - 1)

\* C14: in both parsers end_row is the row before the first row from
\* start_row on with at least 8 of its first 10 columns empty, and
\* min(start_row + bound, height - 1) when there is no such row, with bound
\* 60 (fuzzy) or 80 (strict)
C14_EndRow ==
    (HasParsed /\ parsed.err = "" /\ parsed.start_row # None)
        => EndRowRule(LastDf, IF driver = "build_all" THEN 60 ELSE 80)

\* the student-days (campus, class, week, day) of a rollup group, over the
\* records whose Week parses
StudentDay(rec) ==
    [Campus |-> rec.Campus, Class |-> rec.Class, Week |-> rec.Week,
     Day |-> rec.Day]

StudentDays(recs, weekly, k) ==
    {StudentDay(recs[i]) :
        i \in {j \in 1..Len(recs) :
                 /\ parse_week_start(recs[j].Week) # NaT
                 /\ miss_key(recs[j], weekly) = k}}

\* each of B, L and P has a MarkedCount > 0 recorded for the student-day
AllThreeRecorded(recs, sd) ==
    \A m \in MEAL_LABELS :
        \E i \in 1..Len(recs) :
            /\ StudentDay(recs[i]) = sd
            /\ recs[i].Meal = m /\ recs[i].MarkedCount > 0

\* the row's percentage is (days with all three) / (days) of its group
PctIsMean(recs, weekly, row) ==
    StudentDays(recs, weekly, row.key) # {} =>
        row.Pct_Days_All3MealsRecorded.num
            * Cardinality(StudentDays(recs, weekly, row.key))
        = row.Pct_Days_All3MealsRecorded.den
            * Cardinality({sd \in StudentDays(recs, weekly, row.key) :
                             AllThreeRecorded(recs, sd)})

\* C15: in build_report's rollups a student-day counts as All3MealsRecorded
\* exactly when Breakfast, Lunch and PM-Snack each have MarkedCount > 0
\* recorded for it, and the percentages of Dashboard_Month and
\* Dashboard_Month_Week are the mean of that over the group's student-days
C15_AllThreeMeals ==
    (driver = "build_report" /\ pc = "done") =>
        /\ \A row \in out.Dashboard_Month : PctIsMean(all_records, FALSE, row)
        /\ \A row \in out.Dashboard_Month_Week :
              PctIsMean(all_records, TRUE, row)

StrictDayRow(df) ==
    /\ parsed.day_row < 60 /\ parsed.day_row < shape0(df)
    /\ TokenCount(df, parsed.day_row) >= 2
    /\ \A r \in 0..(parsed.day_row - 1) : TokenCount(df, r) < 2

\* C16: in the strict parse_sheet a day row that is found lies within the
\* first 60 rows, holds at least 2 day tokens, and no row above it holds 2
C16_StrictDayRow ==
    (driver = "build_report" /\ s > 0 /\ pc # "raised"
       /\ parsed.day_row # None)
        => StrictDayRow(LastDf)

\* a cell that is neither absent nor an empty or whitespace-only string
NonEmptyCell(x) == ~isna(x) /\ ~(isinstance_str(x) /\ strip(x.t) = <<>>)

NonEmptyRow(df, r) ==
    \E c \in 0..(shape1(df) - 1) : NonEmptyCell(iat(df, r, c))

FuzzyLabelRow(df) ==
    LET W == {r \in (parsed.day_row + 1)..Min(parsed.day_row + 5, shape0(df) - 1) :
                NonEmptyRow(df, r)}
    IN IF W = {} THEN parsed.err = "No label row found after day row"
       ELSE parsed.label_row = SetMin(W)

StrictLabelRow(df) ==
    IF parsed.day_row + 1 < shape0(df) /\ NonEmptyRow(df, parsed.day_row + 1)
    THEN parsed.label_row = parsed.day_row + 1
    ELSE parsed.err # ""

\* C17: the fuzzy label row is the first of the at most 5 rows after the day
\* row with a non-empty cell (not absent, not a blank string), and without
\* one the parse fails with 'No label row found after day row'; the strict
\* label row is the row after the day row, which must hold a non-empty cell
\* or the parse fails
C17_LabelRow ==
    /\ (driver = "build_all" /\ HasParsed /\ parsed.day_row # None)
          => FuzzyLabelRow(LastDf)
    /\ (driver = "build_report" /\ s > 0 /\ pc # "raised"
          /\ parsed.day_row # None) => StrictLabelRow(LastDf)

\* a text with its lowercase letters turned to uppercase
upper_ch(ch) ==
    IF ch \in LowerSet
    THEN Upper[CHOOSE i \in 1..Len(Lower) : Lower[i] = ch]
    ELSE ch

upper(t) == [i \in 1..Len(t) |-> upper_ch(t[i])]

\* the label a cell names by its trimmed and uppercased text
UpperLabel(x) ==
    IF ~isinstance_str(x) THEN "None"
    ELSE LET t == upper(strip(x.t)) IN
         CASE t = <<"A","T">> -> "At"
           [] t = <<"B">> -> "B"
           [] t = <<"L">> -> "L"
           [] t = <<"P">> -> "P"
           [] OTHER -> "None"

\* the label the parse kept at column cc of the block starting at start
KeptLabel(start, cc) ==
    LET hits == UNION {
            {parsed.blocks[k].labels[j].lab :
                j \in {q \in 1..Len(parsed.blocks[k].labels) :
                         parsed.blocks[k].labels[q].c = cc}} :
            k \in {q \in 1..Len(parsed.blocks) :
                     parsed.blocks[q].start = start}}
    IN IF hits = {} THEN "None" ELSE CHOOSE l \in hits : TRUE

\* the last day start of its name: the block the blocks dict keeps
LastOfName(i) ==
    \A j \in (i + 1)..Len(parsed.day_starts) :
        parsed.day_starts[j].day # parsed.day_starts[i].day

StrictLabels(df) ==
    \A i \in 1..Len(parsed.ranges) :
        LastOfName(i) =>
            \A cc \in parsed.ranges[i].start..(parsed.ranges[i].end - 1) :
                KeptLabel(parsed.ranges[i].start, cc)
                    = UpperLabel(iat(df, parsed.label_row, cc))

\* C18: in the strict parse_sheet a label-row cell resolves to a label
\* exactly when it is a string whose trimmed and uppercased text is one of
\* At, B, L, P ('b' and 'at' resolve as 'B' and 'At' do), with no prefix or
\* substring matching
C18_StrictLabelMatch ==
    (driver = "build_report" /\ s > 0 /\ pc # "raised"
       /\ parsed.day_starts # <<>>) => StrictLabels(LastDf)

\* a non-empty, non-whitespace string
NameString(x) == isinstance_str(x) /\ strip(x.t) # <<>>

\* a number that is not absent; Python counts True and False as numbers
IsNumber(x) == x.k \in {"num", "bool"}

\* the rows of the scan for student rows below the label row
StudentWindow(df) ==
    {r \in (parsed.label_row + 1)..(shape0(df) - 1) :
        r < parsed.label_row + StudentRowScan}

\* the rows of the window that qualify as a student row
StudentRowsIn(df, strict) ==
    {r \in StudentWindow(df) :
        /\ shape1(df) > 1
        /\ NameString(iat(df, r, 1))
        /\ strict => IsNumber(iat(df, r, 0))}

StartRowRule(df, strict, failure) ==
    LET Q == StudentRowsIn(df, strict)
    IN IF Q = {} THEN parsed.start_row = None /\ parsed.err = failure
       ELSE /\ parsed.start_row \in Q
            /\ \A r \in Q : parsed.start_row <= r

\* C19: in both parse_sheet variants start_row is the lowest row below the
\* label row, within the 200-row scan, whose column 1 holds a non-blank
\* string (and, in the strict variant, whose column 0 holds a number); when
\* no row of the window qualifies the parse fails for want of student rows
C19_StartRow ==
    /\ (driver = "build_all" /\ HasParsed /\ parsed.blocks # <<>>)
          => StartRowRule(LastDf, FALSE, "No student rows detected")
    /\ (driver = "build_report" /\ HasParsed /\ parsed.blocks # <<>>)
          => StartRowRule(LastDf, TRUE, "None")

\* the records of the parse for one day and meal
RecordsOf(day, meal) ==
    {j \in 1..Len(parsed.rows) :
        parsed.rows[j].Day = day /\ parsed.rows[j].Meal = meal}

\* the meals a day block has a label for
MealsOf(b) == {b.labels[j].lab : j \in {q \in 1..Len(b.labels) : IsMeal(b.labels[q])}}

OneRecordPerDayMeal ==
    \A k \in 1..Len(parsed.blocks) :
        \A meal \in {"B", "L", "P"} :
            Cardinality(RecordsOf(parsed.blocks[k].day, meal))
                = IF meal \in MealsOf(parsed.blocks[k]) THEN 1 ELSE 0

\* C20: a successful parse_sheet gives exactly one record per (day, meal)
\* pair found in the sheet, so no two records share Day and Meal, and a day
\* block whose labels are Attendance only gives no record
C20_OneRecordPerDayMeal ==
    (driver = "build_all" /\ HasParsed /\ parsed.err = "")
        => OneRecordPerDayMeal

\* a parse that returned its counts
Succeeded == HasParsed /\ pc # "raised" /\ parsed.err = ""

RowOrder(df) ==
    /\ parsed.day_row < parsed.label_row
    /\ parsed.label_row < parsed.start_row
    /\ parsed.start_row <= parsed.end_row
    /\ parsed.end_row <= shape0(df) - 1

\* C21: in every successful parse_sheet result of either variant
\* day_row < label_row < start_row <= end_row <= height - 1: the student rows
\* are a non-empty range inside the sheet, strictly below the header rows
C21_RowOrder == Succeeded => RowOrder(LastDf)

\* a successful strict parse whose first student row is mostly empty, so
\* that end_row comes from the fallback, with rows left below end_row
C21_Witness ==
    /\ driver = "build_report" /\ Succeeded
    /\ isna_sum(LastDf, parsed.start_row) >= EmptyRowMin
    /\ parsed.start_row < parsed.end_row

====
